---- MODULE Spec2Model ----
(***************************************************************************)
(* forumlib/css_layout_tools.py: the static CSS cascade of                 *)
(* apply_css_to_elements (rule collection, specificity, cascade merge,     *)
(* inheritance, write-back of the style attribute).                        *)
(*                                                                         *)
(* A selector text is a sequence of simple selectors, each a record        *)
(* [k, v, n]: k = "id" is the text #v, "class" is .v, "type" is v,         *)
(* "attr" is [v], "pseudo" is :v (or :v(n) when n > 0), "pelem" is ::v.    *)
(* A style attribute text is a sequence of declarations                    *)
(* [name, value, important], the text "name: value[ !important]; ...".     *)
(***************************************************************************)
EXTENDS Integers, Sequences, FiniteSets, TLC

VARIABLES
    input,                          \* the document handed to the first pass
    tree,                           \* soup: the element tree, with style attributes
    styleTags,                      \* soup.find_all('style'): the <style> tags found
    attached,                       \* the indices of the style tags still in soup
    all_css_rules_with_specificity, \* the rule collector's list
    final_styles,                   \* final_styles_for_element, per visited element
    pc,                             \* position in apply_css_to_elements
    idx,                            \* loop index (style tag, then element)
    pass,                           \* 1: first application, 2: application to its output
    firstOut,                       \* the tree returned by the first application
    selector_text,                  \* argument of _get_element_specificity (SpecSel)
    tokenizer_raises,               \* whether the tokenizer call raised (SpecSel)
    specificity,                    \* its result, "none" before the call (SpecSel)
    extracted                       \* the elements remove_invisible_elements extracted

vars == <<input, tree, styleTags, attached, all_css_rules_with_specificity,
          final_styles, pc, idx, pass, firstOut, selector_text, tokenizer_raises,
          specificity, extracted>>

cascadeVars == <<input, tree, styleTags, attached, all_css_rules_with_specificity,
                 final_styles, pass, firstOut>>

selVars == <<selector_text, tokenizer_raises, specificity>>

pruneVars == <<extracted>>

(***************************************************************************)
(* Bounds of the model.                                                    *)
(***************************************************************************)
MaxSelLen == 2     \* simple selectors per selector text (SpecSel)
MaxRules == 2      \* rules of the stylesheet (cascade documents)
MaxDepth == 3      \* nesting depth (inheritance documents)
MaxTags == 2       \* <style> tags (style tag documents)

(***************************************************************************)
(* Selectors.                                                              *)
(***************************************************************************)
Simple(k, v, n) == [k |-> k, v |-> v, n |-> n]

\* ':' in selector_text
HasColon(sel) == \E i \in DOMAIN sel : sel[i].k \in {"pseudo", "pelem"}

\* ':nth-child' in selector_text or ':nth-of-type' in selector_text
HasStaticPseudo(sel) ==
    \E i \in DOMAIN sel :
        sel[i].k = "pseudo" /\ sel[i].v \in {"nth-child", "nth-of-type"}

\* '#' in selector_text
HasHash(sel) == \E i \in DOMAIN sel : sel[i].k = "id"

\* '.' in selector_text or '[' in selector_text or ':' in selector_text
HasDotBracketColon(sel) ==
    \E i \in DOMAIN sel : sel[i].k \in {"class", "attr", "pseudo", "pelem"}

Tok(t, v) == [type |-> t, value |-> v]

\* tinycss2.parse_component_value_list on one simple selector: the node types
\* of tinycss2 are 'hash', 'ident', 'literal', 'function', '[] block', ...
SimpleTokens(s) ==
    CASE s.k = "id"     -> <<Tok("hash", s.v)>>
      [] s.k = "class"  -> <<Tok("literal", "."), Tok("ident", s.v)>>
      [] s.k = "type"   -> <<Tok("ident", s.v)>>
      [] s.k = "attr"   -> <<Tok("[] block", s.v)>>
      [] s.k = "pseudo" -> IF s.n > 0
                           THEN <<Tok("literal", ":"), Tok("function", s.v)>>
                           ELSE <<Tok("literal", ":"), Tok("ident", s.v)>>
      [] s.k = "pelem"  -> <<Tok("literal", ":"), Tok("literal", ":"), Tok("ident", s.v)>>

\* the tokens of the simple selectors one after the other; a name written
\* right after an ident or a hash token continues that token ('divdiv' is one
\* ident, '#adiv' one hash)
RECURSIVE TokenizeFrom(_, _)
TokenizeFrom(acc, sel) ==
    IF sel = <<>> THEN acc
    ELSE LET ts == SimpleTokens(Head(sel))
         IN  TokenizeFrom(
                 IF acc # <<>> /\ ts[1].type = "ident"
                               /\ acc[Len(acc)].type \in {"ident", "hash"}
                 THEN [acc EXCEPT ![Len(acc)].value = @ \o ts[1].value] \o Tail(ts)
                 ELSE acc \o ts,
                 Tail(sel))

Tokenize(sel) == TokenizeFrom(<<>>, sel)

PSEUDO_ELEMENT_NAMES == {"first-line", "first-letter", "before", "after"}

\* one iteration of the token loop: abc is the triple (a, b, c)
CountToken(abc, token) ==
    IF token.type = "id_selector"
    THEN <<abc[1] + 1, abc[2], abc[3]>>
    ELSE IF \/ token.type = "class_selector"
            \/ token.type = "attribute_selector"
            \/ (token.type = "pseudo_class" /\ token.value \notin PSEUDO_ELEMENT_NAMES)
    THEN <<abc[1], abc[2] + 1, abc[3]>>
    ELSE IF token.type = "type_selector" \/ token.type = "pseudo_element"
    THEN <<abc[1], abc[2], abc[3] + 1>>
    ELSE abc

RECURSIVE CountTokens(_, _)
CountTokens(abc, tokens) ==
    IF tokens = <<>> THEN abc
    ELSE CountTokens(CountToken(abc, Head(tokens)), Tail(tokens))

\* the except branch: the heuristic on the raw selector text
FallbackSpecificity(sel) ==
    IF HasHash(sel) THEN <<1, 0, 0>>
    ELSE IF HasDotBracketColon(sel) THEN <<0, 1, 0>>
    ELSE <<0, 0, 1>>

\* _get_element_specificity; raises: the tokenizer call threw
get_element_specificity(sel, raises) ==
    IF raises THEN FallbackSpecificity(sel)
    ELSE CountTokens(<<0, 0, 0>>, Tokenize(sel))

\* _compare_specificity: TRUE iff spec1 is higher than or equal to spec2
compare_specificity(spec1, spec2) ==
    IF spec1[1] > spec2[1] THEN TRUE
    ELSE IF spec1[1] < spec2[1] THEN FALSE
    ELSE IF spec1[2] > spec2[2] THEN TRUE
    ELSE IF spec1[2] < spec2[2] THEN FALSE
    ELSE IF spec1[3] > spec2[3] THEN TRUE
    ELSE IF spec1[3] < spec2[3] THEN FALSE
    ELSE TRUE

\* the key order of list.sort(key=lambda x: x[1]): tuple comparison, strict
SpecLess(s1, s2) ==
    \/ s1[1] < s2[1]
    \/ s1[1] = s2[1] /\ s1[2] < s2[2]
    \/ s1[1] = s2[1] /\ s1[2] = s2[2] /\ s1[3] < s2[3]


(***************************************************************************)
(* Style attributes, cssutils properties and stylesheet rules.             *)
(***************************************************************************)
Decl(n, v, imp) == [name |-> n, value |-> v, important |-> imp]

NoStyle == [has |-> FALSE, decls |-> <<>>, bad |-> FALSE]
StyleAttr(decls) == [has |-> TRUE, decls |-> decls, bad |-> FALSE]

\* a style attribute whose text cssutils.parseStyle raises on
BadStyle == [has |-> TRUE, decls |-> <<>>, bad |-> TRUE]

\* an error handling that lets the matcher's exception through
Caught_NotSelector(source) == source # "selector"

\* the except clauses: an exception raised while a stylesheet is parsed, the
\* element's inline style is parsed, a selector is matched or an ancestor's
\* style is parsed is caught where it is raised
Caught(source) == source \in {"stylesheet", "inline", "selector", "ancestor"}

\* a cssutils Property: name, value and the priority kept apart from the value
Property(d) ==
    [name |-> d.name, value |-> d.value,
     priority |-> IF d.important THEN "important" ELSE ""]

\* cssutils.parseStyle(text).getProperties(), for a text that names no
\* property twice
ParseStyle(decls) == [i \in DOMAIN decls |-> Property(decls[i])]

Rule(sel, decls) == [selectorText |-> sel, style |-> decls]

Block(kind, rules) == [kind |-> kind, rules |-> rules]

\* _get_css_rules: the style rules of a sheet, none when parsing raises
get_css_rules(block) == IF block.kind = "broken" THEN <<>> ELSE block.rules

\* cssutils.parseString raises and _get_css_rules lets the exception out
StylesheetRaises(block) == block.kind = "broken" /\ ~Caught("stylesheet")

(***************************************************************************)
(* The element tree: t[n] is the n-th element in document order; t[1] is   *)
(* <html>, whose parent 0 is the document itself (it has no attributes).   *)
(***************************************************************************)
Elem(name, id, cls, text, style) ==
    [name |-> name, id |-> id, cls |-> cls, text |-> text,
     parent |-> 0, style |-> style]

Elements(t) == DOMAIN t

ChildSet(t, n) == {m \in Elements(t) : t[m].parent = n}

\* the n-th element's position among the element children of its parent
SiblingIndex(t, n) ==
    Cardinality({m \in Elements(t) : t[m].parent = t[n].parent /\ m <= n})

\* the n-th element's position among the children of its parent that have its
\* tag name
TypeIndex(t, n) ==
    Cardinality({m \in Elements(t) :
        t[m].parent = t[n].parent /\ t[m].name = t[n].name /\ m <= n})

\* len(tag.contents): one text node, if any, and the child elements
ContentsLen(t, n) ==
    (IF t[n].text = "" THEN 0 ELSE 1) + Cardinality(ChildSet(t, n))

\* the k-th child element of n
ChildAt(t, n, k) ==
    CHOOSE m \in ChildSet(t, n) : Cardinality({x \in ChildSet(t, n) : x <= m}) = k

\* bs4 Tag.__eq__, which `element in soup.select(...)` compares with: same name,
\* same attributes and pairwise equal contents
RECURSIVE TagEq(_, _, _)
TagEq(t, x, y) ==
    \/ x = y
    \/ /\ t[x].name = t[y].name
       /\ t[x].id = t[y].id
       /\ t[x].cls = t[y].cls
       /\ t[x].style = t[y].style
       /\ t[x].text = t[y].text
       /\ ContentsLen(t, x) = ContentsLen(t, y)
       /\ \A k \in 1..Cardinality(ChildSet(t, x)) :
              TagEq(t, ChildAt(t, x, k), ChildAt(t, y, k))

\* the selector matcher on one simple selector; the dynamic pseudo-classes
\* (:hover, :focus, ...) match no element
SimpleMatches(t, n, s) ==
    CASE s.k = "id"     -> t[n].id = s.v
      [] s.k = "class"  -> t[n].cls = s.v
      [] s.k = "type"   -> t[n].name = s.v
      [] s.k = "attr"   -> (s.v = "id" /\ t[n].id # "") \/ (s.v = "class" /\ t[n].cls # "")
                               \/ (s.v = "style" /\ t[n].style.has)
      [] s.k = "pseudo" -> \/ s.v = "nth-child" /\ SiblingIndex(t, n) = s.n
                           \/ s.v = "nth-of-type" /\ TypeIndex(t, n) = s.n
      [] s.k = "pelem"  -> FALSE

\* the pseudo-classes of the selector texts that the matcher implements
MATCHER_PSEUDO_CLASSES == {"hover", "nth-child", "nth-of-type"}

\* soup.select(selector_text) raises: pseudo-elements are not supported, and
\* neither is a pseudo-class the matcher does not know (':before')
SelectRaises(sel) ==
    \E i \in DOMAIN sel :
        \/ sel[i].k = "pelem"
        \/ sel[i].k = "pseudo" /\ sel[i].v \notin MATCHER_PSEUDO_CLASSES

\* soup.select(selector_text)
Select(t, sel) ==
    {m \in Elements(t) : \A i \in DOMAIN sel : SimpleMatches(t, m, sel[i])}

\* element in soup.select(selector_text)
ElementInSelect(t, n, sel) == \E m \in Select(t, sel) : TagEq(t, n, m)

(***************************************************************************)
(* Rule collection.                                                        *)
(***************************************************************************)
\* the filter of the rule collector: the rule is skipped
IsSkipped(sel) == HasColon(sel) /\ ~HasStaticPseudo(sel)

CollectedRule(rule) ==
    [rule |-> rule,
     specificity |-> get_element_specificity(rule.selectorText, FALSE),
     selector_text |-> rule.selectorText]

RECURSIVE CollectRules(_, _)
CollectRules(acc, rs) ==
    IF rs = <<>> THEN acc
    ELSE CollectRules(IF IsSkipped(Head(rs).selectorText)
                      THEN acc
                      ELSE Append(acc, CollectedRule(Head(rs))),
                      Tail(rs))

\* list.sort(key=lambda x: x[1]): stable, ascending
RECURSIVE InsertSorted(_, _)
InsertSorted(sorted, r) ==
    IF sorted = <<>> THEN <<r>>
    ELSE IF SpecLess(r.specificity, sorted[Len(sorted)].specificity)
    THEN Append(InsertSorted(SubSeq(sorted, 1, Len(sorted) - 1), r), sorted[Len(sorted)])
    ELSE Append(sorted, r)

RECURSIVE SortBySpecificity(_)
SortBySpecificity(rs) ==
    IF rs = <<>> THEN <<>>
    ELSE InsertSorted(SortBySpecificity(SubSeq(rs, 1, Len(rs) - 1)), rs[Len(rs)])

(***************************************************************************)
(* The cascade of one element.                                             *)
(***************************************************************************)
Entry(n, v, spec, imp) == [name |-> n, value |-> v, specificity |-> spec, important |-> imp]

Has(fs, name) == \E i \in DOMAIN fs : fs[i].name = name

Get(fs, name) == fs[CHOOSE i \in DOMAIN fs : fs[i].name = name]

\* final_styles_for_element[name] = entry: a dict keeps the place of a key
Put(fs, e) ==
    IF Has(fs, e.name)
    THEN [i \in DOMAIN fs |-> IF fs[i].name = e.name THEN e ELSE fs[i]]
    ELSE Append(fs, e)

\* step 1: the element's own inline declarations
RECURSIVE SeedInline(_, _)
SeedInline(fs, props) ==
    IF props = <<>> THEN fs
    ELSE SeedInline(Put(fs, Entry(Head(props).name, Head(props).value, <<1, 0, 0>>, TRUE)),
                    Tail(props))

\* a merge that lets every matching declaration overwrite the entry
MergeDeclaration_Overwrite(fs, prop, rule_specificity) ==
    Put(fs, Entry(prop.name, prop.value, rule_specificity, FALSE))

\* step 2, one declaration of a matching rule
MergeDeclaration(fs, prop, rule_specificity) ==
    LET is_important == FALSE
        candidate == Entry(prop.name, prop.value, rule_specificity, is_important)
    IN  IF Has(fs, prop.name)
        THEN LET existing == Get(fs, prop.name)
             IN  IF is_important /\ ~existing.important THEN Put(fs, candidate)
                 ELSE IF ~is_important /\ existing.important THEN fs
                 ELSE IF compare_specificity(rule_specificity, existing.specificity)
                 THEN Put(fs, candidate)
                 ELSE fs
        ELSE Put(fs, candidate)

RECURSIVE MergeDeclarations(_, _, _)
MergeDeclarations(fs, props, rule_specificity) ==
    IF props = <<>> THEN fs
    ELSE MergeDeclarations(MergeDeclaration(fs, Head(props), rule_specificity),
                           Tail(props), rule_specificity)

\* step 2, one collected rule; a selector the matcher rejects is skipped
ApplyRule(fs, t, n, r) ==
    IF SelectRaises(r.selector_text) THEN fs
    ELSE IF ElementInSelect(t, n, r.selector_text)
    THEN MergeDeclarations(fs, ParseStyle(r.rule.style), r.specificity)
    ELSE fs

RECURSIVE ApplyRules(_, _, _, _)
ApplyRules(fs, t, n, rs) ==
    IF rs = <<>> THEN fs
    ELSE ApplyRules(ApplyRule(fs, t, n, Head(rs)), t, n, Tail(rs))

INHERITABLE_PROPERTIES ==
    <<"color", "font-family", "font-size", "font-weight", "line-height",
      "text-align", "visibility">>

\* the first property of the parent's style attribute with the name
FirstNamed(props, name) ==
    props[CHOOSE i \in DOMAIN props :
              props[i].name = name /\ \A j \in 1..(i - 1) : props[j].name # name]

\* step 3, the ancestor walk for one property: `break` leaves the for loop
\* over the parent's properties, the while loop goes on to the next parent
RECURSIVE InheritWalk(_, _, _, _)
InheritWalk(fs, t, name, parent) ==
    IF parent = 0 THEN fs
    ELSE LET attr == t[parent].style
             props == ParseStyle(attr.decls)
             fs2 == IF attr.has /\ ~attr.bad /\ attr.decls # <<>>
                       /\ \E i \in DOMAIN props : props[i].name = name
                    THEN Put(fs, Entry(name, FirstNamed(props, name).value, <<0, 0, 0>>, FALSE))
                    ELSE fs
         IN  InheritWalk(fs2, t, name, t[parent].parent)

RECURSIVE Inherit(_, _, _, _)
Inherit(fs, t, n, names) ==
    IF names = <<>> THEN fs
    ELSE Inherit(IF Has(fs, Head(names)) THEN fs
                 ELSE InheritWalk(fs, t, Head(names), t[n].parent),
                 t, n, Tail(names))

\* the walk from `parent` upwards meets a style attribute that fails to parse
RECURSIVE AncestorRaises(_, _)
AncestorRaises(t, parent) ==
    /\ parent # 0
    /\ (t[parent].style.bad \/ AncestorRaises(t, t[parent].parent))

\* an exception leaves the loop body of element n: one of the three try blocks
\* raises and its except clause does not catch
ElementRaises(t, n, rs) ==
    \/ t[n].style.has /\ t[n].style.bad /\ ~Caught("inline")
    \/ \E i \in DOMAIN rs : SelectRaises(rs[i].selector_text) /\ ~Caught("selector")
    \/ /\ AncestorRaises(t, t[n].parent)
       /\ ~Caught("ancestor")
       /\ \E k \in DOMAIN INHERITABLE_PROPERTIES :
              ~Has(ApplyRules(IF t[n].style.has /\ ~t[n].style.bad
                              THEN SeedInline(<<>>, ParseStyle(t[n].style.decls))
                              ELSE <<>>, t, n, rs),
                   INHERITABLE_PROPERTIES[k])

\* final_styles_for_element of element n of tree t under the rules rs
ComputedStyle(t, n, rs) ==
    LET seeded == IF t[n].style.has /\ ~t[n].style.bad
                  THEN SeedInline(<<>>, ParseStyle(t[n].style.decls))
                  ELSE <<>>
    IN  Inherit(ApplyRules(seeded, t, n, rs), t, n, INHERITABLE_PROPERTIES)

\* a serialization that never writes ' !important'
Serialize_NoImportant(fs) == [i \in DOMAIN fs |-> Decl(fs[i].name, fs[i].value, FALSE)]

\* "; ".join(f"{name}: {value}{' !important' if is_important else ''}")
Serialize(fs) == [i \in DOMAIN fs |-> Decl(fs[i].name, fs[i].value, fs[i].important)]

\* the element's style attribute after the update
WrittenStyle(fs) == IF fs # <<>> THEN StyleAttr(Serialize(fs)) ELSE NoStyle


(***************************************************************************)
(* Input documents.                                                        *)
(***************************************************************************)
SeqsUpTo(S, n) == UNION {[1..k -> S] : k \in 0..n}

\* <div id="a" class="note"></div>
ElemA == Elem("div", "a", "note", "", NoStyle)
\* <p class="note" style="font-weight:bold">Hi</p>
ElemB == Elem("p", "", "note", "Hi", StyleAttr(<<Decl("font-weight", "bold", FALSE)>>))
\* <p>Hi</p>
ElemC == Elem("p", "", "", "Hi", NoStyle)
\* <div id="a" class="note" style="color:blue"></div>
ElemD == Elem("div", "a", "note", "", StyleAttr(<<Decl("color", "blue", FALSE)>>))
\* <div style="color:red"></div>
ElemE == Elem("div", "", "", "", StyleAttr(<<Decl("color", "red", FALSE)>>))

Profiles == {ElemA, ElemB, ElemC, ElemD, ElemE}

\* elements that may hold other elements (the parser closes a <p> at a block)
Containers == {e \in Profiles : e.name = "div"}

\* .note{color:red}
Rule1 == Rule(<<Simple("class", "note", 0)>>, <<Decl("color", "red", FALSE)>>)
\* .note{color:green}
Rule2 == Rule(<<Simple("class", "note", 0)>>, <<Decl("color", "green", FALSE)>>)
\* #a{color:green;margin:0}
Rule3 == Rule(<<Simple("id", "a", 0)>>,
              <<Decl("color", "green", FALSE), Decl("margin", "0", FALSE)>>)
\* .note{color:red !important}
Rule4 == Rule(<<Simple("class", "note", 0)>>, <<Decl("color", "red", TRUE)>>)
\* p:hover{color:green}
Rule5 == Rule(<<Simple("type", "p", 0), Simple("pseudo", "hover", 0)>>,
              <<Decl("color", "green", FALSE)>>)
\* p:hover:nth-child(1){color:green}
Rule6 == Rule(<<Simple("type", "p", 0), Simple("pseudo", "hover", 0),
                Simple("pseudo", "nth-child", 1)>>,
              <<Decl("color", "green", FALSE)>>)
\* p:nth-child(2){color:red}
Rule7 == Rule(<<Simple("type", "p", 0), Simple("pseudo", "nth-child", 2)>>,
              <<Decl("color", "red", FALSE)>>)

RuleUniverse == {Rule1, Rule2, Rule3, Rule4, Rule5, Rule6, Rule7}

Sheets == SeqsUpTo(RuleUniverse, MaxRules)

\* x and y side by side, and y inside x
Siblings(x, y) == <<x, y>>
Nested(x, y) == <<x, [y EXCEPT !.parent = 1]>>

\* a chain: every element the only child of the one before
Chain(es) == [i \in DOMAIN es |-> [es[i] EXCEPT !.parent = i - 1]]

Doc(t, tags) == [tree |-> t, tags |-> tags]

Wrapper(name, parent) == [Elem(name, "", "", "", NoStyle) EXCEPT !.parent = parent]

\* BeautifulSoup(html_content, 'lxml'): the lxml parser puts the content in
\* <html><body>, and leading <style> tags in a <head> before the <body>; the
\* wrappers are elements of the tree like any other
Wrap(content, hasHead) ==
    LET top == IF hasHead
               THEN <<Wrapper("html", 0), Wrapper("head", 1), Wrapper("body", 1)>>
               ELSE <<Wrapper("html", 0), Wrapper("body", 1)>>
    IN  top \o [i \in DOMAIN content |->
                   [content[i] EXCEPT !.parent = IF @ = 0 THEN Len(top) ELSE @ + Len(top)]]

\* the document of the content under the <style> tags
Html(content, tags) == Doc(Wrap(content, tags # <<>>), tags)

\* two elements under every stylesheet of at most MaxRules rules
IsCascadeDoc(doc) ==
    \/ \E x \in Profiles, y \in Profiles, rs \in Sheets :
           doc = Html(Siblings(x, y), <<Block("rules", rs)>>)
    \/ \E x \in Containers, y \in Profiles, rs \in Sheets :
           doc = Html(Nested(x, y), <<Block("rules", rs)>>)

\* chains of MaxDepth elements, without a stylesheet or under .note{color:red}
InheritDocs ==
    {Html(Chain(es), tags) :
        es \in {Append(cs, e) : cs \in [1..(MaxDepth - 1) -> Containers], e \in Profiles},
        tags \in {<<>>, <<Block("rules", <<Rule1>>)>>}}

\* one element under at most MaxTags <style> tags: empty ones, ones that fail
\* to parse, ones whose rules are all filtered out
TagBlocks ==
    {Block("empty", <<>>), Block("broken", <<Rule2>>),
     Block("rules", <<Rule1>>), Block("rules", <<Rule5>>)}

TagDocs == {Html(<<ElemB>>, tags) : tags \in SeqsUpTo(TagBlocks, MaxTags)}

\* <p class="note" style="...">Hi</p> and <div style="..."></div> whose style
\* text fails to parse
ElemF == Elem("p", "", "note", "Hi", BadStyle)
ElemG == Elem("div", "", "", "", BadStyle)

\* p:nth-child(1)::before{color:green}: passes the filter, rejected by the matcher
Rule8 == Rule(<<Simple("type", "p", 0), Simple("pseudo", "nth-child", 1),
                Simple("pelem", "before", 0)>>,
              <<Decl("color", "green", FALSE)>>)

\* p:nth-child(1):before{color:green}: the same written with one colon
Rule10 == Rule(<<Simple("type", "p", 0), Simple("pseudo", "nth-child", 1),
                 Simple("pseudo", "before", 0)>>,
               <<Decl("color", "green", FALSE)>>)

ErrorBlocks ==
    {Block("broken", <<Rule2>>), Block("rules", <<Rule8, Rule1>>),
     Block("rules", <<Rule10, Rule1>>), Block("rules", <<Rule1>>)}

ErrorTrees ==
    {<<ElemF>>, Siblings(ElemF, ElemB), Nested(ElemG, ElemC), Nested(ElemG, ElemF),
     Nested(ElemE, ElemF), Nested(ElemG, ElemB)}

\* malformed input: stylesheets that fail to parse, a selector the matcher
\* rejects, inline styles that fail to parse on an element or its parent
ErrorDocs == {Html(t, tags) : t \in ErrorTrees, tags \in SeqsUpTo(ErrorBlocks, MaxTags)}

\* body{color:red;margin:0}, html{font-size:10px}, :nth-child(2){color:red},
\* p:nth-of-type(1){color:red}
RuleBody == Rule(<<Simple("type", "body", 0)>>,
                 <<Decl("color", "red", FALSE), Decl("margin", "0", FALSE)>>)
RuleHtml == Rule(<<Simple("type", "html", 0)>>, <<Decl("font-size", "10px", FALSE)>>)
RuleNth == Rule(<<Simple("pseudo", "nth-child", 2)>>, <<Decl("color", "red", FALSE)>>)
Rule9 == Rule(<<Simple("type", "p", 0), Simple("pseudo", "nth-of-type", 1)>>,
              <<Decl("color", "red", FALSE)>>)

WrapperRules == {RuleBody, RuleHtml, RuleNth, Rule9}

WrapperTrees ==
    {<<ElemC>>, <<ElemB>>, Nested(ElemE, ElemC), <<ElemE, ElemC, ElemB>>,
     <<ElemD, [ElemC EXCEPT !.parent = 1], ElemC>>}

\* rules that match <html> and <body>, and :nth-of-type
WrapperDocs ==
    {Html(t, <<Block("rules", rs)>>) :
        t \in WrapperTrees, rs \in SeqsUpTo(WrapperRules, MaxRules) \ {<<>>}}

Docs == InheritDocs \cup TagDocs \cup ErrorDocs \cup WrapperDocs

NoStyles(t) == [n \in DOMAIN t |-> <<>>]

(***************************************************************************)
(* apply_css_to_elements, step by step.                                    *)
(***************************************************************************)
PruneIdle == extracted = {}

SelIdle ==
    /\ selector_text = <<>>
    /\ tokenizer_raises = FALSE
    /\ specificity = "none"

Init ==
    /\ (IsCascadeDoc(input) \/ input \in Docs)
    /\ tree = input.tree
    /\ styleTags = input.tags
    /\ attached = 1..Len(input.tags)
    /\ all_css_rules_with_specificity = <<>>
    /\ final_styles = NoStyles(input.tree)
    /\ pc = "collect"
    /\ idx = 1
    /\ pass = 1
    /\ firstOut = <<>>
    /\ SelIdle
    /\ PruneIdle

\* an extract() placed inside the `if css_content:` block
ExtractedTag_OnlyWithContent(att, i, block) ==
    IF block.kind = "empty" THEN att ELSE att \ {i}

\* style_tag.extract(), after the `if css_content:` block: the i-th style tag
\* leaves the tree whatever its content
ExtractedTag(att, i, block) == att \ {i}

\* one iteration of `for style_tag in soup.find_all('style')`: the rules of the
\* tag are collected (none when its string is empty) and the tag is extracted
CollectStyleTag ==
    /\ pc = "collect"
    /\ idx <= Len(styleTags)
    /\ IF StylesheetRaises(styleTags[idx])
       THEN /\ pc' = "aborted"
            /\ UNCHANGED <<all_css_rules_with_specificity, attached, idx>>
       ELSE /\ all_css_rules_with_specificity' =
                   IF styleTags[idx].kind = "empty"
                   THEN all_css_rules_with_specificity
                   ELSE CollectRules(all_css_rules_with_specificity,
                                     get_css_rules(styleTags[idx]))
            /\ attached' = ExtractedTag(attached, idx, styleTags[idx])
            /\ idx' = idx + 1
            /\ pc' = pc
    /\ UNCHANGED <<input, tree, styleTags, final_styles, pass, firstOut, selVars, pruneVars>>

\* all_css_rules_with_specificity.sort(key=lambda x: x[1])
SortRules ==
    /\ pc = "collect"
    /\ idx > Len(styleTags)
    /\ all_css_rules_with_specificity' = SortBySpecificity(all_css_rules_with_specificity)
    /\ pc' = "resolve"
    /\ idx' = 1
    /\ UNCHANGED <<input, tree, styleTags, attached, final_styles, pass, firstOut,
                   selVars, pruneVars>>

\* one iteration of `for element in soup.find_all(True)`: inline seed, cascade,
\* inheritance and the update of the style attribute
ResolveElement ==
    /\ pc = "resolve"
    /\ idx <= Len(tree)
    /\ IF ElementRaises(tree, idx, all_css_rules_with_specificity)
       THEN /\ pc' = "aborted"
            /\ UNCHANGED <<final_styles, tree, idx>>
       ELSE LET fs == ComputedStyle(tree, idx, all_css_rules_with_specificity)
            IN  /\ final_styles' = [final_styles EXCEPT ![idx] = fs]
                /\ tree' = [tree EXCEPT ![idx].style = WrittenStyle(fs)]
                /\ idx' = idx + 1
                /\ pc' = pc
    /\ UNCHANGED <<input, styleTags, attached, all_css_rules_with_specificity,
                   pass, firstOut, selVars, pruneVars>>

\* return str(soup)
Return ==
    /\ pc = "resolve"
    /\ idx > Len(tree)
    /\ pc' = "done"
    /\ firstOut' = IF pass = 1 THEN tree ELSE firstOut
    /\ UNCHANGED <<input, tree, styleTags, attached, all_css_rules_with_specificity,
                   final_styles, idx, pass, selVars, pruneVars>>

\* the subsequence of the style tags that are still attached
RECURSIVE Remaining(_, _, _)
Remaining(tags, att, i) ==
    IF i > Len(tags) THEN <<>>
    ELSE (IF i \in att THEN <<tags[i]>> ELSE <<>>) \o Remaining(tags, att, i + 1)

\* apply_css_to_elements called again on the document it returned: the style
\* tags it finds are the ones the first call left in the tree
ApplyAgain ==
    /\ pc = "done"
    /\ pass = 1
    /\ pass' = 2
    /\ pc' = "collect"
    /\ idx' = 1
    /\ styleTags' = Remaining(styleTags, attached, 1)
    /\ attached' = 1..Len(styleTags')
    /\ all_css_rules_with_specificity' = <<>>
    /\ final_styles' = NoStyles(tree)
    /\ UNCHANGED <<input, tree, firstOut, selVars, pruneVars>>

Next == CollectStyleTag \/ SortRules \/ ResolveElement \/ Return \/ ApplyAgain

Spec == Init /\ [][Next]_vars

(***************************************************************************)
(* _get_element_specificity as a function of its argument and of the       *)
(* outcome of the tokenizer call.                                          *)
(***************************************************************************)
SimpleUniverse ==
    {Simple("id", "a", 0), Simple("class", "b", 0), Simple("type", "div", 0),
     Simple("attr", "href", 0), Simple("pseudo", "hover", 0),
     Simple("pseudo", "nth-child", 2), Simple("pseudo", "before", 0),
     Simple("pelem", "before", 0)}

\* the selector texts of at most MaxSelLen simple selectors; a type selector is
\* written first
SelectorTexts ==
    {sel \in SeqsUpTo(SimpleUniverse, MaxSelLen) \ {<<>>} :
        \A i \in DOMAIN sel : sel[i].k = "type" => i = 1}

CascadeIdle ==
    /\ input = Doc(<<>>, <<>>)
    /\ tree = <<>>
    /\ styleTags = <<>>
    /\ attached = {}
    /\ all_css_rules_with_specificity = <<>>
    /\ final_styles = <<>>
    /\ pc = "call"
    /\ idx = 1
    /\ pass = 1
    /\ firstOut = <<>>

InitSel ==
    /\ selector_text \in SelectorTexts
    /\ tokenizer_raises \in BOOLEAN
    /\ specificity = "none"
    /\ CascadeIdle
    /\ PruneIdle

GetElementSpecificity ==
    /\ pc = "call"
    /\ specificity' = get_element_specificity(selector_text, tokenizer_raises)
    /\ pc' = "returned"
    /\ UNCHANGED <<cascadeVars, idx, selector_text, tokenizer_raises, pruneVars>>

NextSel == GetElementSpecificity

SpecSel == InitSel /\ [][NextSel]_vars


(***************************************************************************)
(* Vocabulary of the claims.                                               *)
(***************************************************************************)
PropertyNames == {"color", "margin", "font-weight", "font-size"}

Range(f) == {f[i] : i \in DOMAIN f}

\* the element has been through the loop body in the current pass
Visited(n) == pc = "done" \/ (pc = "resolve" /\ n < idx)

\* the style attribute the element had when the current pass began
Original(n) == IF pass = 1 THEN input.tree[n].style ELSE firstOut[n].style

\* the rules of the input's stylesheets in document order, minus the filtered
RECURSIVE SourceRules(_)
SourceRules(tags) ==
    IF tags = <<>> THEN <<>>
    ELSE (IF Head(tags).kind = "rules"
          THEN SelectSeq(Head(tags).rules, LAMBDA r : ~IsSkipped(r.selectorText))
          ELSE <<>>) \o SourceRules(Tail(tags))

\* the triple of the specificity rule: ids; classes, attributes and
\* pseudo-classes; types and pseudo-elements (:before and its like included)
IsPseudoElement(s) ==
    s.k = "pelem" \/ (s.k = "pseudo" /\ s.v \in PSEUDO_ELEMENT_NAMES)

SelectorCounts(sel) ==
    <<Cardinality({i \in DOMAIN sel : sel[i].k = "id"}),
      Cardinality({i \in DOMAIN sel :
          sel[i].k \in {"class", "attr", "pseudo"} /\ ~IsPseudoElement(sel[i])}),
      Cardinality({i \in DOMAIN sel : sel[i].k = "type" \/ IsPseudoElement(sel[i])})>>

\* the matcher's verdict on element n of the input
MatchesInput(n, sel) == ~SelectRaises(sel) /\ n \in Select(input.tree, sel)

\* the indices of the source rules that match n and declare p with importance imp
Declaring(n, p, imp) ==
    {i \in DOMAIN SourceRules(input.tags) :
        /\ MatchesInput(n, SourceRules(input.tags)[i].selectorText)
        /\ \E d \in Range(SourceRules(input.tags)[i].style) :
               d.name = p /\ d.important = imp}

DeclaredValue(i, p) ==
    LET ds == SourceRules(input.tags)[i].style
    IN  ds[CHOOSE k \in DOMAIN ds : ds[k].name = p].value

HasInline(n, p) == \E d \in Range(input.tree[n].style.decls) : d.name = p

Declares(attr, p) == \E d \in Range(attr.decls) : d.name = p

ValueIn(attr, p) == attr.decls[CHOOSE k \in DOMAIN attr.decls : attr.decls[k].name = p].value

FirstPassDone == pc = "done" /\ pass = 1

(***************************************************************************)
(* C1: when the first pass has returned, an element without an inline      *)
(* declaration of a property that matches a rule declaring the property    *)
(* !important has, as the final value of the property, the value of an     *)
(* !important declaration of a matching rule, whatever non-important       *)
(* declarations of whatever specificity also match.                        *)
(***************************************************************************)
C1_ImportantBeatsNonImportant ==
    FirstPassDone =>
        \A n \in Elements(tree) : \A p \in PropertyNames :
            (~HasInline(n, p) /\ Declaring(n, p, TRUE) # {}) =>
                /\ Declares(tree[n].style, p)
                /\ \E i \in Declaring(n, p, TRUE) :
                       ValueIn(tree[n].style, p) = DeclaredValue(i, p)

(***************************************************************************)
(* C2: when the first pass has returned, an element without an inline      *)
(* declaration of a property, matched only by non-important declarations   *)
(* of it, has the value of the matching rule of the highest specificity    *)
(* (the triple of selector counts), the latest in document order among     *)
(* the rules of that specificity.                                          *)
(***************************************************************************)
Preferred(i, j) ==
    LET si == SelectorCounts(SourceRules(input.tags)[i].selectorText)
        sj == SelectorCounts(SourceRules(input.tags)[j].selectorText)
    IN  SpecLess(sj, si) \/ (si = sj /\ i >= j)

C2_HighestSpecificityThenLatest ==
    FirstPassDone =>
        \A n \in Elements(tree) : \A p \in PropertyNames :
            (~HasInline(n, p) /\ Declaring(n, p, TRUE) = {}
                /\ Declaring(n, p, FALSE) # {}) =>
                /\ Declares(tree[n].style, p)
                /\ \E i \in Declaring(n, p, FALSE) :
                       /\ \A j \in Declaring(n, p, FALSE) : Preferred(i, j)
                       /\ ValueIn(tree[n].style, p) = DeclaredValue(i, p)

(***************************************************************************)
(* C3: when the tokenizer succeeds, _get_element_specificity returns the   *)
(* triple (ids, classes + attributes + pseudo-classes, types +             *)
(* pseudo-elements) of the selector.                                       *)
(***************************************************************************)
C3_SpecificityIsSelectorCounts ==
    (pc = "returned" /\ ~tokenizer_raises) =>
        specificity = SelectorCounts(selector_text)

(***************************************************************************)
(* C4: once an element has been resolved, every declaration of the style   *)
(* attribute it had before the pass is in its resolved style with the same *)
(* value, as an entry of specificity (1,0,0) marked important, and is      *)
(* written to its style attribute with that value.                         *)
(***************************************************************************)
C4_InlineDeclarationsKept ==
    \A n \in Elements(tree) :
        Visited(n) =>
            \A d \in Range(Original(n).decls) :
                /\ Has(final_styles[n], d.name)
                /\ Get(final_styles[n], d.name) = Entry(d.name, d.value, <<1, 0, 0>>, TRUE)
                /\ Declares(tree[n].style, d.name)
                /\ ValueIn(tree[n].style, d.name) = d.value

\* an element with an inline declaration of a property that a collected,
\* matching rule declares with another value has been resolved
C4_Witness ==
    /\ FirstPassDone
    /\ \E n \in Elements(tree) : \E d \in Range(input.tree[n].style.decls) :
           \E i \in Declaring(n, d.name, FALSE) \cup Declaring(n, d.name, TRUE) :
               /\ DeclaredValue(i, d.name) # d.value
               /\ ValueIn(tree[n].style, d.name) = d.value

(***************************************************************************)
(* C5: the end-to-end scenario                                             *)
(* <style>.note{color:red}</style><p class="note"                          *)
(* style="font-weight:bold">Hi</p>.                                        *)
(***************************************************************************)
C5_Scenario == Html(<<ElemB>>, <<Block("rules", <<Rule1>>)>>)

\* C5 as claimed: the style attribute is exactly `font-weight: bold` and
\* `color: red`, nothing added to either, in either order, and no <style>
\* tag is left
C5_TwoBareDeclarations ==
    (input = C5_Scenario /\ FirstPassDone) =>
        /\ tree[Len(tree)].style \in
               {StyleAttr(<<Decl("font-weight", "bold", FALSE), Decl("color", "red", FALSE)>>),
                StyleAttr(<<Decl("color", "red", FALSE), Decl("font-weight", "bold", FALSE)>>)}
        /\ attached = {}

\* C5 as amended: the style attribute is exactly `font-weight: bold
\* !important; color: red` (the inline declaration is written back marked
\* !important), and no <style> tag is left
C5_InlineMarkedImportant ==
    (input = C5_Scenario /\ FirstPassDone) =>
        /\ tree[Len(tree)].style =
               StyleAttr(<<Decl("font-weight", "bold", TRUE), Decl("color", "red", FALSE)>>)
        /\ attached = {}

C5_Witness == input = C5_Scenario /\ FirstPassDone

(***************************************************************************)
(* C6: the second application to the tree the first one returned leaves    *)
(* the tree, style attributes included, unchanged.                         *)
(***************************************************************************)
C6_SecondApplicationChangesNothing ==
    (pc = "done" /\ pass = 2) => tree = firstOut


(***************************************************************************)
(* C7: once an element has been resolved, an inheritable property that the *)
(* cascade left unset on it and that an ancestor's style attribute defines *)
(* is recorded with the value of the nearest such ancestor, non-important  *)
(* and with specificity (0,0,0).                                           *)
(***************************************************************************)
RECURSIVE Ancestors(_, _)
Ancestors(t, n) ==
    IF t[n].parent = 0 THEN {} ELSE {t[n].parent} \cup Ancestors(t, t[n].parent)

\* the tree as it was when element n was visited
TreeAtVisit(n) ==
    [m \in DOMAIN tree |->
        IF m < n THEN tree[m] ELSE [tree[m] EXCEPT !.style = Original(m)]]

\* the entries of element n after steps 1 and 2
AfterCascade(n) ==
    ApplyRules(IF Original(n).has /\ ~Original(n).bad THEN SeedInline(<<>>, ParseStyle(Original(n).decls))
               ELSE <<>>,
               TreeAtVisit(n), n, all_css_rules_with_specificity)

DefiningAncestors(n, p) ==
    {a \in Ancestors(tree, n) : tree[a].style.has /\ Declares(tree[a].style, p)}

\* the deepest of the defining ancestors (a parent comes before its children)
Nearest(n, p) == CHOOSE a \in DefiningAncestors(n, p) : \A b \in DefiningAncestors(n, p) : b <= a

C7_InheritsFromNearestAncestor ==
    \A n \in Elements(tree) : \A p \in Range(INHERITABLE_PROPERTIES) :
        (Visited(n) /\ ~Has(AfterCascade(n), p) /\ DefiningAncestors(n, p) # {}) =>
            /\ Has(final_styles[n], p)
            /\ Get(final_styles[n], p) =
                   Entry(p, ValueIn(tree[Nearest(n, p)].style, p), <<0, 0, 0>>, FALSE)

(***************************************************************************)
(* C8: _get_element_specificity never returns (0,0,0): when the tokenizer  *)
(* fails, or yields no token of a recognized type, it returns (1,0,0) for  *)
(* a text with `#`, else (0,1,0) for a text with `.`, `[` or `:`, else     *)
(* (0,0,1).                                                                *)
(***************************************************************************)
RecognizedTokenTypes ==
    {"id_selector", "class_selector", "attribute_selector", "pseudo_class",
     "type_selector", "pseudo_element"}

Unrecognized(sel) == \A tok \in Range(Tokenize(sel)) : tok.type \notin RecognizedTokenTypes

C8_FallbackWhenUnrecognized ==
    pc = "returned" =>
        /\ specificity # <<0, 0, 0>>
        /\ (tokenizer_raises \/ Unrecognized(selector_text)) =>
               specificity =
                   IF \E i \in DOMAIN selector_text : selector_text[i].k = "id"
                   THEN <<1, 0, 0>>
                   ELSE IF \E i \in DOMAIN selector_text : selector_text[i].k # "type"
                   THEN <<0, 1, 0>>
                   ELSE <<0, 0, 1>>

(***************************************************************************)
(* C9: no collected rule has a selector with a pseudo-class outside the    *)
(* allow-list (:nth-child, :nth-of-type), also when the selector has an    *)
(* allow-listed pseudo-class besides.                                      *)
(***************************************************************************)
C9_NoDynamicPseudoClassCollected ==
    \A i \in DOMAIN all_css_rules_with_specificity :
        \A s \in Range(all_css_rules_with_specificity[i].selector_text) :
            s.k \in {"pseudo", "pelem"} =>
                (s.k = "pseudo" /\ s.v \in {"nth-child", "nth-of-type"})

(***************************************************************************)
(* C10: when apply_css_to_elements has returned, no <style> tag is left in *)
(* the tree, whatever the tags held.                                       *)
(***************************************************************************)
C10_NoStyleTagLeft == pc = "done" => attached = {}

\* a pass has returned on a document with an empty <style> tag, one that
\* fails to parse and one whose rules were all filtered out
C10_Witness ==
    /\ FirstPassDone
    /\ \E i \in DOMAIN input.tags : input.tags[i].kind = "empty"
    /\ \E i \in DOMAIN input.tags :
           input.tags[i].kind = "broken" \/ input.tags[i] = Block("rules", <<Rule5>>)


(***************************************************************************)
(* remove_invisible_elements.  The style attribute is read as text here:   *)
(* a declaration written `name: value` is spaced, one written `name:value` *)
(* is not.  The documents hold no style attribute that cssutils rejects    *)
(* (the parseStyle call of this function is outside any try).              *)
(***************************************************************************)
INTRINSIC_SIZE_TAGS ==
    {"img", "input", "br", "hr", "video", "audio", "canvas", "iframe", "object", "embed"}

SIZE_PROPERTIES == {"width", "height", "min-width", "min-height"}

NON_EXPLICIT_VALUES == {"auto", "0", "0px", "0em", "0%"}

RawDecl(n, v, spaced) == [name |-> n, value |-> v, important |-> FALSE, spaced |-> spaced]

\* str.lower() on the words the documents write in upper case
Lower(w) ==
    CASE w = "DISPLAY" -> "display"
      [] w = "NONE" -> "none"
      [] w = "VISIBILITY" -> "visibility"
      [] w = "HIDDEN" -> "hidden"
      [] OTHER -> w

\* '<name>: <value>' in style_attr.lower()
ContainsText(attr, name, value) ==
    /\ attr.has
    /\ \E i \in DOMAIN attr.decls :
           /\ Lower(attr.decls[i].name) = name
           /\ Lower(attr.decls[i].value) = value
           /\ attr.decls[i].spaced

\* a hidden test that forgets visibility: hidden
IsHidden_DisplayOnly(attr) == ContainsText(attr, "display", "none")

\* the two tests on the style text
IsHidden(attr) ==
    ContainsText(attr, "display", "none") \/ ContainsText(attr, "visibility", "hidden")

\* an intrinsic-size test that exempts no tag
IsIntrinsic_None(name) == FALSE

\* element.name in INTRINSIC_SIZE_TAGS
IsIntrinsic(name) == name \in INTRINSIC_SIZE_TAGS

\* not element.contents: no text node and no child still attached
HasNoContents(t, ext, n) == t[n].text = "" /\ ChildSet(t, n) \ ext = {}

\* a size test that wants every size declaration to be explicit
has_explicit_size_All(attr) ==
    LET props == ParseStyle(attr.decls)
        sized == {i \in DOMAIN props : props[i].name \in SIZE_PROPERTIES}
    IN  sized # {} /\ \A i \in sized : props[i].value \notin NON_EXPLICIT_VALUES

\* has_explicit_size: some width, height, min-width or min-height whose value
\* is not one of auto, 0, 0px, 0em, 0%
has_explicit_size(attr) ==
    LET props == ParseStyle(attr.decls)
    IN  \E i \in DOMAIN props :
            /\ props[i].name \in SIZE_PROPERTIES
            /\ props[i].value \notin NON_EXPLICIT_VALUES

\* the loop body's verdict on element n: extract() is called
ShouldExtract(t, ext, n) ==
    IF IsHidden(t[n].style) THEN TRUE
    ELSE IF HasNoContents(t, ext, n) /\ ~IsIntrinsic(t[n].name)
    THEN ~has_explicit_size(t[n].style)
    ELSE FALSE

\* the element is in the returned document: neither it nor an ancestor of it
\* has been extracted
RECURSIVE InOutput(_, _, _)
InOutput(t, ext, n) ==
    n \notin ext /\ (t[n].parent = 0 \/ InOutput(t, ext, t[n].parent))

Raw(decls) == StyleAttr(decls)

\* <span></span>, <span>x</span>, <img>, <div></div>
SpanEmpty == Elem("span", "", "", "", NoStyle)
SpanText == Elem("span", "", "", "x", NoStyle)
ImgPlain == Elem("img", "", "", "", NoStyle)
DivPlain == Elem("div", "", "", "", NoStyle)
\* <span style="display: none">x</span>
SpanHidden == Elem("span", "", "", "x", Raw(<<RawDecl("display", "none", TRUE)>>))
\* <span style="display:none">x</span>
SpanUnspaced == Elem("span", "", "", "x", Raw(<<RawDecl("display", "none", FALSE)>>))
\* <span style="VISIBILITY: HIDDEN">x</span>
SpanUpper == Elem("span", "", "", "x", Raw(<<RawDecl("VISIBILITY", "HIDDEN", TRUE)>>))
\* <img style="display: none">
ImgHidden == Elem("img", "", "", "", Raw(<<RawDecl("display", "none", TRUE)>>))
\* <img style="width: 0">
ImgZero == Elem("img", "", "", "", Raw(<<RawDecl("width", "0", TRUE)>>))
\* <div style="width: 0; height: 10px"></div>
DivSized == Elem("div", "", "", "", Raw(<<RawDecl("width", "0", TRUE), RawDecl("height", "10px", TRUE)>>))
\* <div style="width: 0px; min-height: auto"></div>
DivZero == Elem("div", "", "", "", Raw(<<RawDecl("width", "0px", TRUE), RawDecl("min-height", "auto", TRUE)>>))
\* <div style="color: red"></div>
DivColor == Elem("div", "", "", "", Raw(<<RawDecl("color", "red", TRUE)>>))
\* <div style="visibility: hidden"></div>
DivHidden == Elem("div", "", "", "", Raw(<<RawDecl("visibility", "hidden", TRUE)>>))

PruneContainers == {DivPlain, DivHidden, DivSized}

PruneProfiles ==
    {SpanEmpty, SpanText, ImgPlain, DivPlain, SpanHidden, SpanUnspaced, SpanUpper,
     ImgHidden, ImgZero, DivSized, DivZero, DivColor, DivHidden}

\* y and z inside x
Family(x, y, z) == <<x, [y EXCEPT !.parent = 1], [z EXCEPT !.parent = 1]>>

\* chains of MaxDepth elements, pairs of siblings, and pairs inside a container
PruneDocs ==
    {Html(Chain(es), <<>>) :
        es \in {Append(cs, e) :
                   cs \in [1..(MaxDepth - 1) -> PruneContainers], e \in PruneProfiles}}
    \cup {Html(Siblings(x, y), <<>>) : x \in PruneProfiles, y \in PruneProfiles}
    \cup {Html(Family(x, y, z), <<>>) :
             x \in PruneContainers, y \in PruneProfiles, z \in PruneProfiles}

InitPrune ==
    /\ input \in PruneDocs
    /\ tree = input.tree
    /\ styleTags = <<>>
    /\ attached = {}
    /\ all_css_rules_with_specificity = <<>>
    /\ final_styles = <<>>
    /\ pc = "prune"
    /\ idx = 1
    /\ pass = 1
    /\ firstOut = <<>>
    /\ SelIdle
    /\ PruneIdle

\* one iteration of `for element in soup.find_all(True, recursive=True)`: the
\* list was taken before the loop, so extracted elements' descendants are
\* visited too
PruneElement ==
    /\ pc = "prune"
    /\ idx <= Len(tree)
    /\ extracted' = IF ShouldExtract(tree, extracted, idx)
                    THEN extracted \cup {idx}
                    ELSE extracted
    /\ idx' = idx + 1
    /\ UNCHANGED <<cascadeVars, pc, selVars>>

\* return str(soup)
PruneReturn ==
    /\ pc = "prune"
    /\ idx > Len(tree)
    /\ pc' = "pruned"
    /\ UNCHANGED <<cascadeVars, idx, selVars, pruneVars>>

NextPrune == PruneElement \/ PruneReturn

SpecPrune == InitPrune /\ [][NextPrune]_vars

(***************************************************************************)
(* Vocabulary of the claims on remove_invisible_elements.                  *)
(***************************************************************************)
Pruned == pc = "pruned"

\* the element is empty in the input: no text and no child element
EmptyInInput(n) == tree[n].text = "" /\ ChildSet(tree, n) = {}

\* the style text contains `display: none` or `visibility: hidden`, in any case
StyleHides(n) ==
    /\ tree[n].style.has
    /\ \E d \in Range(tree[n].style.decls) :
           /\ d.spaced
           /\ <<Lower(d.name), Lower(d.value)>> \in
                  {<<"display", "none">>, <<"visibility", "hidden">>}

RECURSIVE Subtree(_, _)
Subtree(t, n) == {n} \cup UNION {Subtree(t, m) : m \in ChildSet(t, n)}

\* the style declares a size property with a value other than auto, 0, 0px,
\* 0em, 0%
DeclaresSize(n) ==
    \E d \in Range(tree[n].style.decls) :
        /\ d.name \in {"width", "height", "min-width", "min-height"}
        /\ d.value \notin {"auto", "0", "0px", "0em", "0%"}

IntrinsicTag(n) ==
    tree[n].name \in
        {"img", "input", "br", "hr", "video", "audio", "canvas", "iframe", "object", "embed"}

(***************************************************************************)
(* C11 as claimed: when remove_invisible_elements has returned, no empty   *)
(* element with an intrinsic-size tag has been deleted, whatever its       *)
(* style.                                                                  *)
(***************************************************************************)
C11_IntrinsicNeverDeleted ==
    Pruned =>
        \A n \in Elements(tree) :
            (IntrinsicTag(n) /\ EmptyInInput(n)) => n \notin extracted

(***************************************************************************)
(* C11 as amended: an empty element with an intrinsic-size tag is deleted  *)
(* exactly when its own style text contains `display: none` or             *)
(* `visibility: hidden`; it is never deleted for being empty.              *)
(***************************************************************************)
C11_IntrinsicDeletedOnlyWhenHidden ==
    \A n \in Elements(tree) :
        (IntrinsicTag(n) /\ EmptyInInput(n) /\ (Pruned \/ (pc = "prune" /\ n < idx))) =>
            (n \in extracted <=> StyleHides(n))

\* an empty <img> whose style does not hide it has been kept, next to an empty
\* <img> that was deleted for its `display: none`
C11_Witness ==
    /\ Pruned
    /\ \E n \in Elements(tree) :
           /\ IntrinsicTag(n) /\ EmptyInInput(n)
           /\ tree[n].style.has /\ ~StyleHides(n)
           /\ InOutput(tree, extracted, n)
    /\ \E n \in Elements(tree) :
           /\ IntrinsicTag(n) /\ EmptyInInput(n) /\ StyleHides(n)
           /\ n \in extracted

(***************************************************************************)
(* C12: when remove_invisible_elements has returned, every element whose   *)
(* style text contains `display: none` or `visibility: hidden` (in any     *)
(* case) has been deleted, and neither it nor any of its descendants is in *)
(* the output.                                                             *)
(***************************************************************************)
C12_HiddenDeletedWithSubtree ==
    Pruned =>
        \A n \in Elements(tree) :
            StyleHides(n) =>
                /\ n \in extracted
                /\ \A m \in Subtree(tree, n) : ~InOutput(tree, extracted, m)

\* a hidden element had a descendant with content that is not itself hidden
C12_Witness ==
    /\ Pruned
    /\ \E n \in Elements(tree) : \E m \in Subtree(tree, n) \ {n} :
           /\ StyleHides(n) /\ ~StyleHides(m) /\ tree[m].text # ""
           /\ m \notin extracted
           /\ ~InOutput(tree, extracted, m)

(***************************************************************************)
(* C13: an element that is not hidden, has no children when it is          *)
(* evaluated and has no intrinsic-size tag is deleted if and only if its   *)
(* style declares no width, height, min-width or min-height with a value   *)
(* other than auto, 0, 0px, 0em, 0%.                                       *)
(***************************************************************************)
C13_EmptyDeletedIffNoExplicitSize ==
    \A n \in Elements(tree) :
        (/\ Pruned \/ (pc = "prune" /\ n < idx)
         /\ ~StyleHides(n) /\ EmptyInInput(n) /\ ~IntrinsicTag(n)) =>
            (n \in extracted <=> ~DeclaresSize(n))

\* an empty element with one zero and one non-zero size has been kept, and an
\* empty element with only zero and auto sizes has been deleted
C13_Witness ==
    /\ Pruned
    /\ \E n \in Elements(tree) :
           /\ tree[n] = [DivSized EXCEPT !.parent = tree[n].parent]
           /\ EmptyInInput(n) /\ n \notin extracted
    /\ \E n \in Elements(tree) :
           /\ tree[n] = [DivZero EXCEPT !.parent = tree[n].parent]
           /\ n \in extracted

(***************************************************************************)
(* C17: when remove_invisible_elements has returned, no element of the     *)
(* output is childless, without an intrinsic-size tag and without an       *)
(* explicit non-zero size: a second run would delete nothing.              *)
(***************************************************************************)
C17_OnePassFixedPoint ==
    Pruned =>
        \A n \in Elements(tree) :
            InOutput(tree, extracted, n) =>
                ~(/\ tree[n].text = ""
                  /\ \A m \in ChildSet(tree, n) : ~InOutput(tree, extracted, m)
                  /\ ~IntrinsicTag(n)
                  /\ ~DeclaresSize(n))

(***************************************************************************)
(* Vocabulary of the claim on malformed input.                             *)
(***************************************************************************)
Inheritable(p) == \E k \in DOMAIN INHERITABLE_PROPERTIES : INHERITABLE_PROPERTIES[k] = p

\* the collected rules that the matcher accepts and that match element n
AppliedRules(n) ==
    {i \in DOMAIN all_css_rules_with_specificity :
        /\ ~SelectRaises(all_css_rules_with_specificity[i].selector_text)
        /\ ElementInSelect(TreeAtVisit(n), n, all_css_rules_with_specificity[i].selector_text)}

\* the sources a declaration of property p on element n can come from: the
\* element's own well-formed inline style, an applied rule, an ancestor's
\* style attribute
HasSource(n, p) ==
    \/ ~Original(n).bad /\ Declares(Original(n), p)
    \/ \E i \in AppliedRules(n) :
           \E d \in Range(all_css_rules_with_specificity[i].rule.style) : d.name = p
    \/ Inheritable(p) /\ \E a \in Ancestors(tree, n) : Declares(tree[a].style, p)

(***************************************************************************)
(* C14: a pass of apply_css_to_elements never aborts on malformed input.   *)
(* A stylesheet that fails to parse contributes no rule; a rule whose      *)
(* selector the matcher rejects is skipped and every other matching rule   *)
(* is still applied; an inline style that fails to parse contributes no    *)
(* declaration; every element is processed and the pass goes on until the  *)
(* document is returned.                                                   *)
(***************************************************************************)
C14_MalformedInputNeverAborts ==
    /\ pc # "aborted"
    /\ (pass = 1 /\ pc \in {"resolve", "done"}) =>
           /\ Len(all_css_rules_with_specificity) = Len(SourceRules(input.tags))
           /\ \A i \in DOMAIN all_css_rules_with_specificity :
                  all_css_rules_with_specificity[i].rule \in Range(SourceRules(input.tags))
    /\ \A n \in Elements(tree) :
           Visited(n) =>
               /\ \A i \in AppliedRules(n) :
                      \A d \in Range(all_css_rules_with_specificity[i].rule.style) :
                          Has(final_styles[n], d.name)
               /\ \A k \in DOMAIN final_styles[n] : HasSource(n, final_styles[n][k].name)
               /\ ~tree[n].style.bad
               /\ tree[n].style = WrittenStyle(final_styles[n])

\* a first pass has returned on a document with a stylesheet that fails to
\* parse, a collected rule the matcher rejects and an element whose inline
\* style and whose parent's inline style fail to parse; the element still got
\* the declaration of the rule that follows the rejected one
C14_Witness ==
    /\ FirstPassDone
    /\ \E i \in DOMAIN input.tags : input.tags[i].kind = "broken"
    /\ \E i \in DOMAIN all_css_rules_with_specificity :
           SelectRaises(all_css_rules_with_specificity[i].selector_text)
    /\ \E n \in Elements(tree) :
           /\ input.tree[n].style.bad
           /\ input.tree[n].parent # 0
           /\ input.tree[input.tree[n].parent].style.bad
           /\ Has(final_styles[n], "color")

(***************************************************************************)
(* Vocabulary of the claim on the merge.  The collected rules compare      *)
(* equal under the sort, which is stable, so the position of a rule in     *)
(* all_css_rules_with_specificity is its source position.                  *)
(***************************************************************************)
\* the entries of element n after the inline seed and the first k rules
CascadeUpTo(n, k) ==
    ApplyRules(IF Original(n).has /\ ~Original(n).bad
               THEN SeedInline(<<>>, ParseStyle(Original(n).decls))
               ELSE <<>>,
               TreeAtVisit(n), n, SubSeq(all_css_rules_with_specificity, 1, k))

\* the k-th rule is applied to element n and declares p
IsCandidate(n, p, k) ==
    /\ k \in AppliedRules(n)
    /\ \E d \in Range(all_css_rules_with_specificity[k].rule.style) : d.name = p

\* the k-th rule's declaration of p took the place of the entry for p
Replaced(n, p, k) ==
    /\ IsCandidate(n, p, k)
    /\ Has(CascadeUpTo(n, k - 1), p)
    /\ Get(CascadeUpTo(n, k), p) # Get(CascadeUpTo(n, k - 1), p)

\* the rule whose declaration is the entry for p after the first k rules; 0
\* when the entry is the inline one or there is none
RECURSIVE WinnerRule(_, _, _)
WinnerRule(n, p, k) ==
    IF k = 0 THEN 0
    ELSE IF IsCandidate(n, p, k) /\ (~Has(CascadeUpTo(n, k - 1), p) \/ Replaced(n, p, k))
    THEN k
    ELSE WinnerRule(n, p, k - 1)

\* the declaration of p in the k-th rule is written !important
DeclaredImportant(p, k) ==
    \E d \in Range(all_css_rules_with_specificity[k].rule.style) :
        d.name = p /\ d.important

\* the k-th rule's declaration of p is strictly preferred to the j-th rule's
\* in the order (important, specificity, source order)
StrictlyPreferred(p, k, j) ==
    LET sk == SelectorCounts(all_css_rules_with_specificity[k].selector_text)
        sj == SelectorCounts(all_css_rules_with_specificity[j].selector_text)
    IN  \/ DeclaredImportant(p, k) /\ ~DeclaredImportant(p, j)
        \/ /\ DeclaredImportant(p, k) = DeclaredImportant(p, j)
           /\ (SpecLess(sj, sk) \/ (sk = sj /\ k > j))

(***************************************************************************)
(* C15: in the merge, a candidate declaration takes the place of the       *)
(* entry of another rule only if it is strictly preferred to it in the     *)
(* order (important, specificity, source order); a candidate of the same   *)
(* importance and specificity that does not come later leaves the entry    *)
(* as it is.                                                               *)
(***************************************************************************)
C15_ReplacedOnlyIfStrictlyPreferred ==
    \A n \in Elements(tree) :
        (pass = 1 /\ Visited(n)) =>
            \A p \in PropertyNames : \A k \in DOMAIN all_css_rules_with_specificity :
                LET j == WinnerRule(n, p, k - 1)
                IN  (IsCandidate(n, p, k) /\ j # 0) =>
                        /\ Replaced(n, p, k) => StrictlyPreferred(p, k, j)
                        /\ (/\ DeclaredImportant(p, k) = DeclaredImportant(p, j)
                            /\ SelectorCounts(all_css_rules_with_specificity[k].selector_text)
                                 = SelectorCounts(all_css_rules_with_specificity[j].selector_text)
                            /\ k <= j) => ~Replaced(n, p, k)

(***************************************************************************)
(* Vocabulary of the claim on the visit order.                             *)
(***************************************************************************)
VisitOrders(t) == {f \in [DOMAIN t -> DOMAIN t] : \A i, j \in DOMAIN t : f[i] = f[j] => i = j}

\* the loop body applied to the elements order[k], order[k+1], ... in turn
RECURSIVE ResolveInOrder(_, _, _, _)
ResolveInOrder(t, rs, order, k) ==
    IF k > Len(order) THEN t
    ELSE ResolveInOrder([t EXCEPT ![order[k]].style =
                            WrittenStyle(ComputedStyle(t, order[k], rs))],
                        rs, order, k + 1)

DocumentOrder(t) == [i \in DOMAIN t |-> i]

\* the loop body applied in document order gives the tree the pass returned
\* (holds under Spec)
DocumentOrderIsThePass ==
    FirstPassDone =>
        ResolveInOrder(input.tree, all_css_rules_with_specificity,
                       DocumentOrder(input.tree), 1) = tree

(***************************************************************************)
(* C16: the style attributes apply_css_to_elements writes do not depend on *)
(* the order in which the elements are visited: the loop body applied to   *)
(* the input tree in any order of its elements gives the tree the pass     *)
(* returned.                                                               *)
(***************************************************************************)
C16_VisitOrderIrrelevant ==
    FirstPassDone =>
        \A order \in VisitOrders(input.tree) :
            ResolveInOrder(input.tree, all_css_rules_with_specificity, order, 1) = tree

====
